---- MODULE Spec2Model ----
(***************************************************************************)
(* Model of collect.py: the .gitignore matcher (should_ignore), the tree   *)
(* renderer (get_directory_tree) and the content walker                    *)
(* (process_directory).                                                    *)
(*                                                                         *)
(* A string is a sequence of one-character strings; a path given by its    *)
(* components is a sequence of such strings.                               *)
(***************************************************************************)
EXTENDS Integers, Sequences, FiniteSets, TLC

VARIABLES
    fs,          \* the file system below the root directory: path -> entry
    ignorefile,  \* the .gitignore entry of the root directory
    target,      \* the path handed to process_directory
    pc,          \* position of the run
    patterns,    \* gitignore_patterns of the run / the list under test
    output,      \* the report built so far, a sequence of lines
    pending,     \* directories os.walk has still to visit
    query,       \* the candidate handed to should_ignore (matcher harness)
    verdicts     \* should_ignore of every prefix of the candidate

vars == <<fs, ignorefile, target, pc, patterns, output, pending, query, verdicts>>

(***************************************************************************)
(* Bounds.                                                                 *)
(***************************************************************************)
MaxPatLen == 3
MaxDepth == 3
MaxEntries == 3

(***************************************************************************)
(* Strings.                                                                *)
(***************************************************************************)
SLASH == "/"
STAR == "*"
QMARK == "?"
BANG == "!"
HASH == "#"
DOT == "."
SPACE == " "

Whitespace == {SPACE}

RECURSIVE StrsOfLen(_, _)
StrsOfLen(chars, n) ==
    IF n = 0 THEN {<<>>}
    ELSE {Append(s, c) : s \in StrsOfLen(chars, n - 1), c \in chars}

\* all non-empty strings over chars of length at most n
Strs(chars, n) == UNION {StrsOfLen(chars, k) : k \in 1..n}

\* str.startswith
startswith(s, pre) ==
    /\ Len(pre) <= Len(s)
    /\ SubSeq(s, 1, Len(pre)) = pre

\* str.endswith
endswith(s, suf) ==
    /\ Len(suf) <= Len(s)
    /\ SubSeq(s, Len(s) - Len(suf) + 1, Len(s)) = suf

RECURSIVE lstrip(_)
lstrip(s) ==
    IF s # <<>> /\ Head(s) \in Whitespace THEN lstrip(Tail(s)) ELSE s

RECURSIVE rstrip(_)
rstrip(s) ==
    IF s # <<>> /\ s[Len(s)] \in Whitespace
    THEN rstrip(SubSeq(s, 1, Len(s) - 1)) ELSE s

\* str.strip
strip(s) == rstrip(lstrip(s))

\* c in s
contains(s, c) == \E i \in 1..Len(s) : s[i] = c

\* s.split(sep): the pieces between separators, empty pieces included
RECURSIVE split_from(_, _, _)
split_from(s, i, cur) ==
    IF i > Len(s) THEN <<cur>>
    ELSE IF s[i] = SLASH THEN <<cur>> \o split_from(s, i + 1, <<>>)
    ELSE split_from(s, i + 1, Append(cur, s[i]))

split(s) == split_from(s, 1, <<>>)

\* "/".join(parts)
RECURSIVE join(_)
join(parts) ==
    IF parts = <<>> THEN <<>>
    ELSE IF Len(parts) = 1 THEN parts[1]
    ELSE parts[1] \o <<SLASH>> \o join(Tail(parts))

(***************************************************************************)
(* fnmatch.fnmatch(name, pat) on a POSIX host: normcase is the identity,   *)
(* the pattern is translated to a regular expression that has to match     *)
(* the whole name: '*' is '.*' (any characters, '/' included), '?' is '.', *)
(* every other character stands for itself.  The alphabet of the model has *)
(* no '[', so the character-class branch of the translation is not taken.  *)
(***************************************************************************)
RECURSIVE glob(_, _, _, _)
glob(name, i, pat, j) ==
    IF j > Len(pat) THEN i > Len(name)
    ELSE IF pat[j] = STAR
        THEN \/ glob(name, i, pat, j + 1)
             \/ (i <= Len(name) /\ glob(name, i + 1, pat, j))
    ELSE IF pat[j] = QMARK
        THEN i <= Len(name) /\ glob(name, i + 1, pat, j + 1)
    ELSE i <= Len(name) /\ name[i] = pat[j] /\ glob(name, i + 1, pat, j + 1)

fnmatch(name, pat) == glob(name, 1, pat, 1)

(***************************************************************************)
(* os.path on a POSIX host.                                                *)
(***************************************************************************)
\* normpath's component pass on an absolute path: drop '' and '.', and let
\* '..' remove the component before it
RECURSIVE normcomps(_, _)
normcomps(comps, acc) ==
    IF comps = <<>> THEN acc
    ELSE LET c == Head(comps) IN
        IF c = <<>> \/ c = <<DOT>> THEN normcomps(Tail(comps), acc)
        ELSE IF c = <<DOT, DOT>>
            THEN normcomps(Tail(comps),
                           IF acc = <<>> THEN acc ELSE SubSeq(acc, 1, Len(acc) - 1))
        ELSE normcomps(Tail(comps), Append(acc, c))

\* os.path.abspath of an absolute path string
abspath(path_str) == <<SLASH>> \o join(normcomps(split(path_str), <<>>))

\* the non-empty pieces of an absolute path
pathlist(abs) == SelectSeq(split(abs), LAMBDA x : x # <<>>)

RECURSIVE commonlen(_, _)
commonlen(a, b) ==
    IF a = <<>> \/ b = <<>> \/ Head(a) # Head(b) THEN 0
    ELSE 1 + commonlen(Tail(a), Tail(b))

\* os.path.relpath(path, start), as a list of components ("." is <<".">>)
relpath_list(abs_path, abs_start) ==
    LET start_list == pathlist(abs_start)
        path_list == pathlist(abs_path)
        i == commonlen(start_list, path_list)
        rel_list == [k \in 1..(Len(start_list) - i) |-> <<DOT, DOT>>]
                    \o SubSeq(path_list, i + 1, Len(path_list))
    IN IF rel_list = <<>> THEN <<<<DOT>>>> ELSE rel_list

relpath(abs_path, abs_start) == join(relpath_list(abs_path, abs_start))

\* os.path.basename
basename(abs) == LET parts == split(abs) IN parts[Len(parts)]

\* Path(relative_path).parent.parts
parent_parts(relative_path) ==
    LET parts == SelectSeq(split(relative_path), LAMBDA x : x # <<>> /\ x # <<DOT>>)
    IN IF parts = <<>> THEN <<>> ELSE SubSeq(parts, 1, Len(parts) - 1)

(***************************************************************************)
(* should_ignore.                                                          *)
(***************************************************************************)
\* The three branches of the loop body take the pattern without its
\* trailing '/'.  TRUE is "return True"; FALSE is "go on to the next
\* pattern" (a continue, or falling off the end of the branch).

\* lines 80-90: a pattern starting with '/'
anchored_branch(pattern, is_dir_only_pattern, relative_path, path_is_dir) ==
    LET anchored_p == Tail(pattern) IN
    IF fnmatch(relative_path, anchored_p)
    THEN ~(is_dir_only_pattern /\ ~path_is_dir)
    ELSE startswith(relative_path, anchored_p \o <<SLASH>>)

\* lines 94-103: a pattern with a '/' that is not its first character
slash_branch(pattern, is_dir_only_pattern, relative_path, path_is_dir) ==
    IF fnmatch(relative_path, pattern)
    THEN ~(is_dir_only_pattern /\ ~path_is_dir /\ relative_path = pattern)
    ELSE startswith(relative_path, pattern \o <<SLASH>>)

\* simple_branch without the directory-only test of line 108
simple_branch_any_kind(pattern, is_dir_only_pattern, relative_path, base_name, path_is_dir) ==
    \/ fnmatch(base_name, pattern)
    \/ /\ relative_path # <<>>
       /\ \E k \in DOMAIN parent_parts(relative_path) :
              fnmatch(parent_parts(relative_path)[k], pattern)

\* simple_branch with a directory component matched when the pattern occurs
\* anywhere inside it
simple_branch_substring(pattern, is_dir_only_pattern, relative_path, base_name, path_is_dir) ==
    IF fnmatch(base_name, pattern)
    THEN ~(is_dir_only_pattern /\ ~path_is_dir)
    ELSE /\ relative_path # <<>>
         /\ \E k \in DOMAIN parent_parts(relative_path) :
                fnmatch(parent_parts(relative_path)[k], <<STAR>> \o pattern \o <<STAR>>)

\* lines 105-122: a pattern without '/'
simple_branch(pattern, is_dir_only_pattern, relative_path, base_name, path_is_dir) ==
    IF fnmatch(base_name, pattern)
    THEN ~(is_dir_only_pattern /\ ~path_is_dir)
    ELSE /\ relative_path # <<>>
         /\ \E k \in DOMAIN parent_parts(relative_path) :
                fnmatch(parent_parts(relative_path)[k], pattern)

\* one turn of the loop over the patterns
pattern_returns_true(p_raw, relative_path, base_name, path_is_dir) ==
    LET stripped == strip(p_raw)
        is_dir_only_pattern == endswith(stripped, <<SLASH>>)
        pattern == IF is_dir_only_pattern
                   THEN SubSeq(stripped, 1, Len(stripped) - 1) ELSE stripped
    IN IF stripped = <<>> \/ startswith(stripped, <<HASH>>) THEN FALSE
       ELSE IF startswith(stripped, <<BANG>>) THEN FALSE
       ELSE IF startswith(pattern, <<SLASH>>)
            THEN anchored_branch(pattern, is_dir_only_pattern, relative_path, path_is_dir)
       ELSE IF contains(pattern, SLASH)
            THEN slash_branch(pattern, is_dir_only_pattern, relative_path, path_is_dir)
       ELSE simple_branch(pattern, is_dir_only_pattern, relative_path, base_name,
                          path_is_dir)

RECURSIVE ignore_loop(_, _, _, _, _)
ignore_loop(pats, k, relative_path, base_name, path_is_dir) ==
    IF k > Len(pats) THEN FALSE
    ELSE IF pattern_returns_true(pats[k], relative_path, base_name, path_is_dir)
        THEN TRUE
    ELSE ignore_loop(pats, k + 1, relative_path, base_name, path_is_dir)

\* path_is_dir stands for os.path.isdir(abs_path)
should_ignore(path_str, pats, base_directory_str, path_is_dir) ==
    LET abs_path == abspath(path_str)
        abs_base_directory == abspath(base_directory_str)
        relative_path == relpath(abs_path, abs_base_directory)
    IN IF pats = <<>> THEN FALSE
       ELSE IF ~startswith(abs_path, abs_base_directory) THEN FALSE
       ELSE IF relative_path = <<DOT>> THEN FALSE
       ELSE ignore_loop(pats, 1, relative_path, basename(abs_path), path_is_dir)

(***************************************************************************)
(* get_gitignore_patterns.  An ignore file is "absent", "unreadable" (the  *)
(* open raises IOError) or the sequence of its lines.                      *)
(***************************************************************************)
get_gitignore_patterns(file) ==
    IF file = "absent" \/ file = "unreadable" THEN <<>>
    ELSE LET kept == SelectSeq([k \in DOMAIN file |-> strip(file[k])],
                               LAMBDA line : line # <<>> /\ ~startswith(line, <<HASH>>))
         IN kept

(***************************************************************************)
(* Matcher harness: should_ignore applied to a candidate path and to each  *)
(* of its ancestors, under the patterns loaded from an ignore file.        *)
(* The base directory is /r/b; a candidate is /r/b (the base), a path      *)
(* below it, or a path below the siblings /r/bc and /r/c.                  *)
(***************************************************************************)
PatChars == {"a", STAR, QMARK, SLASH, BANG}

\* longer ignore-file lines than the exhaustive ones
ExtraLines ==
    { <<"a", SLASH, STAR, SLASH>>,
      <<QMARK, SLASH, "a", SLASH>>,
      <<"a", SLASH, "b", SLASH>>,
      <<SLASH, "a", SLASH, "b">>,
      <<SLASH, "a", SLASH, "b", SLASH>>,
      <<SLASH, STAR, "b", SLASH>>,
      <<SPACE, "a", SLASH, SPACE>>,
      <<HASH, "a">>,
      <<SPACE>> }

FirstLines == Strs(PatChars, MaxPatLen) \cup ExtraLines

SecondLines == { <<"b">>, <<SLASH, "a">> }

IgnoreFiles ==
    {<<l>> : l \in FirstLines}
      \cup {<<l, m>> : l \in Strs(PatChars, 2) \cup ExtraLines, m \in SecondLines}

BaseNames == { <<"a">>, <<"b">> }

\* entry names taken from an ignore-file line: its non-empty segments
SegNames(line) ==
    {s \in {split(strip(line))[k] : k \in DOMAIN split(strip(line))} : s # <<>>}

RECURSIVE PathsOfLen(_, _)
PathsOfLen(names, n) ==
    IF n = 0 THEN {<<>>}
    ELSE {Append(p, c) : p \in PathsOfLen(names, n - 1), c \in names}

\* paths of 0..n components over names
Paths(names, n) == UNION {PathsOfLen(names, k) : k \in 0..n}

BaseComps == << <<"r">>, <<"b">> >>
SiblingTops == { <<"b", "c">>, <<"c">> }

AbsStr(comps) == <<SLASH>> \o join(comps)

BaseStr == AbsStr(BaseComps)

\* the candidates: paths below the base over the base names and the names
\* the first line gives, paths below an entry named "a" + such a name, and
\* paths outside the base
Queries(file) ==
    LET segs == SegNames(file[1])
        inside == {BaseComps \o p : p \in Paths(BaseNames \cup segs, MaxDepth)}
        longer == {BaseComps \o << <<"a">> \o s >> \o p :
                     s \in segs, p \in Paths(BaseNames, MaxDepth - 2)}
        outside == {<< <<"r">>, t >> \o p :
                     t \in SiblingTops, p \in Paths(BaseNames, MaxDepth - 1)}
    IN {[comps |-> c, isdir |-> d] :
            c \in inside \cup longer \cup outside, d \in BOOLEAN}

NoQuery == [comps |-> <<>>, isdir |-> TRUE]

\* the verdicts of the candidate's prefixes /r, /r/x, ...; a proper prefix
\* of a path is a directory
PrefixVerdicts(q, pats) ==
    [k \in 1..Len(q.comps) |->
        should_ignore(AbsStr(SubSeq(q.comps, 1, k)), pats, BaseStr,
                      k < Len(q.comps) \/ q.isdir)]

InitMatch ==
    /\ ignorefile \in IgnoreFiles
    /\ pc = "load"
    /\ patterns = <<>>
    /\ query = NoQuery
    /\ verdicts = <<>>
    /\ fs = <<>>
    /\ target = <<>>
    /\ output = <<>>
    /\ pending = <<>>

LoadPatterns ==
    /\ pc = "load"
    /\ patterns' = get_gitignore_patterns(ignorefile)
    /\ pc' = "match"
    /\ UNCHANGED <<fs, ignorefile, target, output, pending, query, verdicts>>

Judge ==
    /\ pc = "match"
    /\ \E q \in Queries(ignorefile) :
          /\ query' = q
          /\ verdicts' = PrefixVerdicts(q, patterns)
    /\ pc' = "judged"
    /\ UNCHANGED <<fs, ignorefile, target, patterns, output, pending>>

NextMatch == LoadPatterns \/ Judge

SpecMatch == InitMatch /\ [][NextMatch]_vars

(***************************************************************************)
(* The file system of a run.  The root directory is /r/b; fs maps the path *)
(* of every entry below it (its components from the root) to the entry.    *)
(* A directory is "ok" or "denied" (listing it raises PermissionError).    *)
(* A file is "text", "blank" (empty or whitespace only), "binary" (a null  *)
(* byte or undecodable bytes in its first 1024 bytes), "denied" (every     *)
(* open raises) or "late" (the first chunk can be read, the full text read *)
(* raises).  The ignore file of the root is kept apart in ignorefile; the  *)
(* root itself can be listed.                                              *)
(***************************************************************************)
RunNames == { <<"a">>, <<DOT, "h">> }

GITIGNORE == <<DOT, "g", "i", "t", "i", "g", "n", "o", "r", "e">>

DirEntries == {[kind |-> "dir", state |-> st] : st \in {"ok", "denied"}}
FileEntries ==
    {[kind |-> "file", state |-> st] : st \in {"text", "blank", "binary", "denied", "late"}}

\* the sets of at most n paths that hold the parent of each of their paths
RECURSIVE Shapes(_)
Shapes(n) ==
    IF n = 0 THEN {{}}
    ELSE Shapes(n - 1) \cup
         UNION {{S \cup {Append(d, c)} : d \in {<<>>} \cup S, c \in RunNames} :
                S \in Shapes(n - 1)}

HasChild(S, d) == \E q \in S : Len(q) = Len(d) + 1 /\ SubSeq(q, 1, Len(d)) = d

FileSystems ==
    UNION {{f \in [S -> DirEntries \cup FileEntries] :
                \A d \in S : HasChild(S, d) => f[d].kind = "dir"} :
           S \in Shapes(MaxEntries)}

RunIgnoreFiles ==
    { "absent", "unreadable",
      << <<"a", SLASH>> >>,
      << <<SLASH, "a", SLASH, "a">> >>,
      << <<DOT, STAR>> >>,
      << <<HASH, "a">>, <<BANG, "a">>, <<SPACE, STAR, "h", SPACE>> >> }

Missing == << <<"m">> >>

\* the entry at a path below the root, the ignore file included
EntryAt(fsys, igf, path) ==
    IF path = <<GITIGNORE>>
    THEN [kind |-> "file", state |-> IF igf = "unreadable" THEN "denied" ELSE "text"]
    ELSE fsys[path]

Exists(fsys, igf, path) ==
    \/ path = <<>>
    \/ path \in DOMAIN fsys
    \/ (path = <<GITIGNORE>> /\ igf # "absent")

\* os.path.isdir / os.path.isfile of the path below the root
isdir(fsys, igf, path) ==
    IF path = <<>> THEN TRUE
    ELSE IF ~Exists(fsys, igf, path) THEN FALSE
    ELSE EntryAt(fsys, igf, path).kind = "dir"

isfile(fsys, igf, path) ==
    path # <<>> /\ Exists(fsys, igf, path) /\ EntryAt(fsys, igf, path).kind = "file"

\* the names os.listdir / os.scandir give for a directory
listdir(fsys, igf, dir) ==
    {q[Len(q)] : q \in {r \in DOMAIN fsys :
                          Len(r) = Len(dir) + 1 /\ SubSeq(r, 1, Len(dir)) = dir}}
      \cup (IF dir = <<>> /\ igf # "absent" THEN {GITIGNORE} ELSE {})

\* os.path.join(root, ...) as an absolute path string
FullPath(path) == AbsStr(BaseComps \o path)

(***************************************************************************)
(* sorted(): strings in code-point order.                                  *)
(***************************************************************************)
CharCode ==
    [c \in {SPACE, BANG, HASH, STAR, DOT, SLASH, QMARK,
            "a", "b", "c", "e", "g", "h", "i", "m", "n", "o", "r", "t"} |->
        CASE c = SPACE -> 32 [] c = BANG -> 33 [] c = HASH -> 35 [] c = STAR -> 42
          [] c = DOT -> 46 [] c = SLASH -> 47 [] c = QMARK -> 63
          [] c = "a" -> 97 [] c = "b" -> 98 [] c = "c" -> 99 [] c = "e" -> 101
          [] c = "g" -> 103 [] c = "h" -> 104 [] c = "i" -> 105 [] c = "m" -> 109
          [] c = "n" -> 110 [] c = "o" -> 111 [] c = "r" -> 114 [] c = "t" -> 116]

RECURSIVE StrLess(_, _)
StrLess(s, t) ==
    IF t = <<>> THEN FALSE
    ELSE IF s = <<>> THEN TRUE
    ELSE IF Head(s) # Head(t) THEN CharCode[Head(s)] < CharCode[Head(t)]
    ELSE StrLess(Tail(s), Tail(t))

RECURSIVE sorted(_)
sorted(S) ==
    IF S = {} THEN <<>>
    ELSE LET m == CHOOSE x \in S : \A y \in S \ {x} : StrLess(x, y)
         IN <<m>> \o sorted(S \ {m})

(***************************************************************************)
(* The report: a sequence of lines.  A line has a kind k; a tree line      *)
(* carries the name in text, the prefix and the branch in prefix and, for  *)
(* reference, the path of the entry it was emitted for in path.  A "file"  *)
(* line carries the path string written after "File: " in text; a "body"   *)
(* line stands for the content of the file at path.                        *)
(***************************************************************************)
Line(k, path, text, prefix) == [k |-> k, path |-> path, text |-> text, prefix |-> prefix]

DELIM == Line("delim", <<>>, <<>>, <<>>)

\* item_name.startswith('.')
hidden(name) == startswith(name, <<DOT>>)

\* lines 133-184; "TEE" is the branch of an inner sibling, "ELL" of the last
\* one, "BAR" and "GAP" the prefix units below them
RECURSIVE print_tree(_, _, _, _, _)
print_tree(fsys, igf, pats, dir, prefix) ==
    IF ~isdir(fsys, igf, dir) THEN <<>>
    ELSE IF dir # <<>> /\ fsys[dir].state = "denied"
        THEN <<Line("marker", dir, <<>>, prefix)>>
    ELSE
        LET items_in_dir == sorted(listdir(fsys, igf, dir))
            valid_items_for_tree ==
                SelectSeq(items_in_dir,
                          LAMBDA item_name :
                              ~should_ignore(FullPath(Append(dir, item_name)), pats, BaseStr,
                                             isdir(fsys, igf, Append(dir, item_name))))
            entry(i) ==
                LET item_name == valid_items_for_tree[i]
                    item_path == Append(dir, item_name)
                    is_last == i = Len(valid_items_for_tree)
                    branch == IF is_last THEN "ELL" ELSE "TEE"
                    new_prefix == Append(prefix, IF is_last THEN "GAP" ELSE "BAR")
                IN <<Line("tree", item_path, item_name, Append(prefix, branch))>>
                   \o (IF isdir(fsys, igf, item_path) /\ ~hidden(item_name)
                       THEN print_tree(fsys, igf, pats, item_path, new_prefix)
                       ELSE <<>>)
            rec[i \in 0..Len(valid_items_for_tree)] ==
                IF i = 0 THEN <<>> ELSE rec[i - 1] \o entry(i)
        IN rec[Len(valid_items_for_tree)]

\* lines 125-190; the root of a run is a directory
get_directory_tree(fsys, igf, pats) ==
    <<Line("tree_root", <<>>, basename(BaseStr), <<>>)>>
      \o print_tree(fsys, igf, pats, <<>>, <<>>)

\* lines 283-302
is_binary_file(entry) ==
    IF entry.state = "denied" THEN TRUE
    ELSE entry.state = "binary"

(***************************************************************************)
(* process_directory.                                                      *)
(***************************************************************************)
\* the orders in which the directory walk may hand out a set of names
Orders(S) ==
    {f \in [1..Cardinality(S) -> S] : \A i, j \in DOMAIN f : f[i] = f[j] => i = j}

\* a content block: an empty line, the delimiter, "File: <path>", the
\* delimiter and the body
Block(shown_path, body) ==
    <<Line("blank", <<>>, <<>>, <<>>), DELIM,
      Line("file", <<>>, shown_path, <<>>), DELIM, body>>

ERROR_BODY == Line("error", <<>>, <<>>, <<>>)

\* file_output without the hidden-name test of line 254
file_output_hidden_read(fsys, igf, pats, file_path) ==
    LET entry == EntryAt(fsys, igf, file_path)
        rel_path == relpath(FullPath(file_path), BaseStr)
    IN IF should_ignore(FullPath(file_path), pats, BaseStr, FALSE) THEN <<>>
       ELSE IF is_binary_file(entry) THEN <<>>
       ELSE IF entry.state = "late" THEN Block(rel_path, ERROR_BODY)
       ELSE IF entry.state = "blank" THEN <<>>
       ELSE Block(rel_path, Line("body", file_path, <<>>, <<>>))

\* lines 246-279: what one file of the walk adds to the report
file_output(fsys, igf, pats, file_path) ==
    LET entry == EntryAt(fsys, igf, file_path)
        file_name == file_path[Len(file_path)]
        rel_path == relpath(FullPath(file_path), BaseStr)
    IN IF should_ignore(FullPath(file_path), pats, BaseStr, FALSE) THEN <<>>
       ELSE IF hidden(file_name) \/ is_binary_file(entry) THEN <<>>
       ELSE IF entry.state = "late" THEN Block(rel_path, ERROR_BODY)
       ELSE IF entry.state = "blank" THEN <<>>
       ELSE Block(rel_path, Line("body", file_path, <<>>, <<>>))

\* dir_kept without the hidden-name test of line 242
dir_kept_hidden_too(pats, dir_path) ==
    ~should_ignore(FullPath(dir_path), pats, BaseStr, TRUE)

\* lines 237-244: the subdirectory is kept for the descent
dir_kept(pats, dir_path) ==
    /\ ~should_ignore(FullPath(dir_path), pats, BaseStr, TRUE)
    /\ ~hidden(dir_path[Len(dir_path)])

RECURSIVE files_output(_, _, _, _, _)
files_output(fsys, igf, pats, dir, files) ==
    IF files = <<>> THEN <<>>
    ELSE file_output(fsys, igf, pats, Append(dir, Head(files)))
           \o files_output(fsys, igf, pats, dir, Tail(files))

Init ==
    /\ fs \in FileSystems
    /\ ignorefile \in RunIgnoreFiles
    /\ target \in {<<>>, Missing} \cup {q \in DOMAIN fs : Len(q) = 1 /\ fs[q].kind = "file"}
    /\ pc = "start"
    /\ patterns = <<>>
    /\ output = <<>>
    /\ pending = <<>>
    /\ query = NoQuery
    /\ verdicts = <<>>

\* lines 197-213: the path is a file
SingleFile ==
    /\ pc = "start"
    /\ ~isdir(fs, ignorefile, target)
    /\ isfile(fs, ignorefile, target)
    /\ LET name == basename(FullPath(target)) IN
       output' = <<Line("single_header", <<>>, name, <<>>), Line("blank", <<>>, <<>>, <<>>)>>
                 \o (IF fs[target].state \in {"denied", "late"}
                     THEN <<ERROR_BODY>>
                     ELSE <<DELIM, Line("file", <<>>, name, <<>>), DELIM,
                            Line("body", target, <<>>, <<>>)>>)
    /\ pc' = "done"
    /\ UNCHANGED <<fs, ignorefile, target, patterns, pending, query, verdicts>>

\* lines 214-215: the path is neither a file nor a directory
InvalidPath ==
    /\ pc = "start"
    /\ ~isdir(fs, ignorefile, target)
    /\ ~isfile(fs, ignorefile, target)
    /\ output' = <<Line("not_found", target, <<>>, <<>>)>>
    /\ pc' = "done"
    /\ UNCHANGED <<fs, ignorefile, target, patterns, pending, query, verdicts>>

\* lines 218-229: the patterns, the tree and the two headers; the walk
\* starts at the root
StartDirectory ==
    /\ pc = "start"
    /\ isdir(fs, ignorefile, target)
    /\ patterns' = get_gitignore_patterns(ignorefile)
    /\ output' = <<Line("dir_header", <<>>, <<>>, <<>>)>>
                 \o get_directory_tree(fs, ignorefile, patterns')
                 \o <<Line("blank", <<>>, <<>>, <<>>),
                      Line("contents_header", <<>>, <<>>, <<>>)>>
    /\ pending' = << <<>> >>
    /\ pc' = "walk"
    /\ UNCHANGED <<fs, ignorefile, target, query, verdicts>>

\* lines 229-279: one turn of the loop over os.walk.  The walk goes depth
\* first and top down, hands out the names of a directory in the order of
\* the file system, and passes over a directory it cannot list.
WalkDirectory ==
    /\ pc = "walk"
    /\ pending # <<>>
    /\ LET root == Head(pending) IN
       IF root # <<>> /\ fs[root].state = "denied"
       THEN /\ pending' = Tail(pending)
            /\ output' = output
       ELSE LET names == listdir(fs, ignorefile, root)
                dirs == {n \in names : isdir(fs, ignorefile, Append(root, n))}
                files == names \ dirs
            IN \E original_dirs \in Orders(dirs), file_order \in Orders(files) :
                  LET kept == SelectSeq(original_dirs,
                                        LAMBDA d_name : dir_kept(patterns, Append(root, d_name)))
                  IN /\ pending' = [k \in DOMAIN kept |-> Append(root, kept[k])]
                                     \o Tail(pending)
                     /\ output' = output
                                    \o files_output(fs, ignorefile, patterns, root, file_order)
    /\ UNCHANGED <<fs, ignorefile, target, pc, patterns, query, verdicts>>

\* line 281
Return ==
    /\ pc = "walk"
    /\ pending = <<>>
    /\ pc' = "done"
    /\ UNCHANGED <<fs, ignorefile, target, patterns, output, pending, query, verdicts>>

Next == SingleFile \/ InvalidPath \/ StartDirectory \/ WalkDirectory \/ Return

Spec == Init /\ [][Next]_vars

(***************************************************************************)
(* Properties of the report of process_directory.                          *)
(***************************************************************************)
\* a run on the root directory, once the tree is rendered
DirectoryRun == target = <<>> /\ pc \in {"walk", "done"}

\* the name begins with '.'
DotName(path) == path[Len(path)][1] = DOT

\* the entries of the root directory's tree, the ignore file included
AllEntries ==
    DOMAIN fs \cup (IF ignorefile = "absent" THEN {} ELSE {<<GITIGNORE>>})

KindOf(path) == IF path = <<GITIGNORE>> THEN "file" ELSE fs[path].kind

\* the matcher's verdict on the entry under the patterns of the run
Ignored(path) == should_ignore(FullPath(path), patterns, BaseStr, KindOf(path) = "dir")

HasTreeLine(path) ==
    \E i \in DOMAIN output : output[i].k = "tree" /\ output[i].path = path

\* the positions where a content block starts: delimiter, File:, delimiter, body
BlockStarts ==
    {i \in 1..(Len(output) - 3) :
        /\ output[i].k = "delim"
        /\ output[i + 1].k = "file"
        /\ output[i + 2].k = "delim"
        /\ output[i + 3].k \in {"body", "error"}}

\* the path of a block, by its components
BlockPath(i) == split(output[i + 1].text)

StrictlyBelow(path, dir) ==
    Len(path) > Len(dir) /\ SubSeq(path, 1, Len(dir)) = dir

\* the renderer lists the directory: the root, or a listed, non-hidden
\* directory that can be listed
Expanded(dir) ==
    \/ dir = <<>>
    \/ /\ HasTreeLine(dir)
       /\ fs[dir].kind = "dir"
       /\ fs[dir].state = "ok"
       /\ ~DotName(dir)

\* the walk reaches the directory: every directory on the way down to it
\* is listable, not ignored and not hidden
WalkReaches(dir) ==
    \A k \in 1..Len(dir) :
        LET d == SubSeq(dir, 1, k) IN
        fs[d].kind = "dir" /\ fs[d].state = "ok" /\ ~Ignored(d) /\ ~DotName(d)

Parent(path) == SubSeq(path, 1, Len(path) - 1)

\* C2: in a directory run, a file that passes the ignore filter and the
\* hidden-name filter and cannot be read has a content block with an
\* error body in the report.
C2_UnreadableFileKept ==
    (pc = "done" /\ target = <<>>) =>
        \A f \in DOMAIN fs :
            (/\ fs[f].kind = "file"
             /\ fs[f].state \in {"denied", "late"}
             /\ WalkReaches(Parent(f))
             /\ ~Ignored(f)
             /\ ~DotName(f)) =>
                \E i \in BlockStarts :
                    BlockPath(i) = f /\ output[i + 3].k = "error"

\* C6: the report of a run on an existing regular file has exactly one
\* content block, for the file's base name, and no tree section.
C6_SingleFileOneBlock ==
    (pc = "done" /\ target \in DOMAIN fs) =>
        /\ Cardinality(BlockStarts) = 1
        /\ \A i \in BlockStarts : output[i + 1].text = target[Len(target)]
        /\ \A i \in DOMAIN output : output[i].k \notin {"dir_header", "tree_root", "tree"}

\* C7: in a directory run, a non-ignored entry whose name begins with '.',
\* in a directory the renderer expands, has a line in the tree; no entry
\* below it has a line in the tree, and neither it nor any file below it
\* has a content block.
C7_HiddenListedNotEntered ==
    DirectoryRun =>
        \A h \in AllEntries :
            (DotName(h) /\ ~Ignored(h) /\ Expanded(Parent(h))) =>
                /\ HasTreeLine(h)
                /\ \A q \in DOMAIN fs : StrictlyBelow(q, h) => ~HasTreeLine(q)
                /\ \A i \in BlockStarts :
                      BlockPath(i) # h /\ ~StrictlyBelow(BlockPath(i), h)

\* a listed hidden directory with a readable text file in it, at the end of
\* the run
C7_Witness ==
    /\ pc = "done"
    /\ target = <<>>
    /\ \E h \in DOMAIN fs :
          /\ DotName(h) /\ ~Ignored(h) /\ Expanded(Parent(h))
          /\ fs[h].kind = "dir" /\ fs[h].state = "ok"
          /\ \E q \in DOMAIN fs : StrictlyBelow(q, h) /\ fs[q].state = "text"
          /\ HasTreeLine(h)

\* C9: in a directory run, every file with a content block has its line in
\* the tree, and so has every directory above it below the root.
C9_BlocksAreInTree ==
    DirectoryRun =>
        \A i \in BlockStarts :
            \A k \in 1..Len(BlockPath(i)) :
                /\ HasTreeLine(SubSeq(BlockPath(i), 1, k))
                /\ k < Len(BlockPath(i)) => Expanded(SubSeq(BlockPath(i), 1, k))

\* a file two directories down has its content block
C9_Witness ==
    /\ pc = "done"
    /\ target = <<>>
    /\ \E i \in BlockStarts : Len(BlockPath(i)) = 3 /\ output[i + 3].k = "body"

(***************************************************************************)
(* Properties of should_ignore, stated on the matcher harness.             *)
(***************************************************************************)
Judged == pc = "judged"

\* comps is the base directory or lies below it
Under(comps) == Len(comps) >= 2 /\ SubSeq(comps, 1, 2) = BaseComps

\* the candidate lies strictly below the base; its components from there
QInside == Len(query.comps) > 2 /\ Under(query.comps)
QRel == SubSeq(query.comps, 3, Len(query.comps))
QVerdict == verdicts[Len(query.comps)]

\* C1: should_ignore is false for every path that is neither the base
\* directory nor below it, whatever the patterns (a sibling /r/bc of the
\* base /r/b included).
C1_OutsideNeverIgnored ==
    Judged =>
        \A k \in DOMAIN verdicts :
            ~Under(SubSeq(query.comps, 1, k)) => ~verdicts[k]

\* the text of an anchored pattern without the leading and a trailing '/'
AnchoredText(p) ==
    LET t == Tail(p) IN
    IF endswith(t, <<SLASH>>) THEN SubSeq(t, 1, Len(t) - 1) ELSE t

\* comps matches the pattern text x segment by segment: as many components
\* as segments, each component glob-matching its segment
SegMatch(comps, x) ==
    LET segs == split(x) IN
    /\ Len(segs) = Len(comps)
    /\ \A i \in DOMAIN comps : fnmatch(comps[i], segs[i])

\* C3: with an anchored pattern /x as the only pattern, a path below the
\* base is ignored only if it is, or lies below, the entry at the root
\* whose relative path matches x; in particular d/y is not ignored when d
\* does not match x and y matches x only as a nested name.
C3_AnchoredOnlyAtRoot ==
    (Judged /\ Len(patterns) = 1 /\ startswith(patterns[1], <<SLASH>>) /\ QInside) =>
        \A k \in 3..Len(query.comps) :
            verdicts[k] =>
                \E j \in 3..k :
                    SegMatch(SubSeq(query.comps, 3, j), AnchoredText(patterns[1]))

\* the candidate is the path a directory-only pattern is built from: n/ or
\* /n/ for the root-level path n, dir/n/ for the path dir/n
C4Case ==
    /\ Judged
    /\ Len(patterns) = 1
    /\ QInside
    /\ \/ Len(QRel) = 1 /\ patterns[1] = QRel[1] \o <<SLASH>>
       \/ Len(QRel) = 1 /\ patterns[1] = <<SLASH>> \o QRel[1] \o <<SLASH>>
       \/ Len(QRel) = 2 /\ patterns[1] = join(QRel) \o <<SLASH>>

\* C4 as stated: for every name, the directory-only pattern built from it
\* is false for a plain file at exactly that path and true for a directory
\* there.
C4_DirOnlyEveryName == C4Case => (QVerdict = query.isdir)

\* C4, amended: the same for every pattern text that does not begin with
\* '!' (a negation, which is skipped).
C4_DirOnlyExclusion ==
    (C4Case /\ ~startswith(patterns[1], <<BANG>>)) => (QVerdict = query.isdir)

C4_Witness ==
    /\ C4Case
    /\ Len(QRel) = 2
    /\ ~startswith(patterns[1], <<BANG>>)
    /\ ~query.isdir
    /\ ~QVerdict

\* the only pattern is non-anchored, slash-free and not negated, and the
\* candidate is a file below the base
C5Case ==
    /\ Judged
    /\ Len(patterns) = 1
    /\ ~contains(patterns[1], SLASH)
    /\ ~startswith(patterns[1], <<BANG>>)
    /\ QInside
    /\ ~query.isdir

\* the file a/x/b: a and b do not match x
C5Component ==
    /\ Len(QRel) = 3
    /\ QRel[2] = patterns[1]
    /\ ~fnmatch(QRel[1], patterns[1])
    /\ ~fnmatch(QRel[3], patterns[1])

\* the file ax/b: a and b do not match x
C5Substring(a) ==
    /\ Len(QRel) = 2
    /\ QRel[1] = a \o patterns[1]
    /\ ~fnmatch(a, patterns[1])
    /\ ~fnmatch(QRel[2], patterns[1])

\* C5 as stated: for every such pattern x the file a/x/b is ignored and the
\* file ax/b is not.
C5_ComponentNotSubstring ==
    C5Case =>
        /\ C5Component => QVerdict
        /\ \A a \in BaseNames : C5Substring(a) => ~QVerdict

\* C5, amended: the file a/x/b is ignored, and the file ax/b is not ignored
\* provided the component ax does not itself glob-match x.
C5_ComponentMatch ==
    C5Case =>
        /\ C5Component => QVerdict
        /\ \A a \in BaseNames :
              (C5Substring(a) /\ ~fnmatch(a \o patterns[1], patterns[1])) => ~QVerdict

C5_Witness ==
    /\ C5Case
    /\ \E a \in BaseNames :
          C5Substring(a) /\ ~fnmatch(a \o patterns[1], patterns[1])
    /\ ~QVerdict

\* no directory above the candidate is ignored by the first pattern alone
NoAncestorMatched ==
    \A k \in 1..(Len(query.comps) - 1) :
        ~should_ignore(AbsStr(SubSeq(query.comps, 1, k)), <<patterns[1]>>, BaseStr, TRUE)

\* C8: a pattern ending in '/' never matches a candidate that is not a
\* directory: the verdict is the verdict of the rest of the list (false
\* when it is the only pattern).  Stated for the candidates no ancestor of
\* which the pattern ignores, so that nothing but the candidate's own path
\* is matched against the pattern.
C8_DirOnlyNeverMatchesFile ==
    (/\ Judged
     /\ patterns # <<>>
     /\ endswith(patterns[1], <<SLASH>>)
     /\ ~query.isdir
     /\ NoAncestorMatched) =>
        QVerdict = should_ignore(AbsStr(query.comps), Tail(patterns), BaseStr, FALSE)

\* C10: should_ignore of a directory below the base implies should_ignore
\* of every path below that directory.
C10_ClosedUnderDescent ==
    Judged =>
        \A i, j \in DOMAIN verdicts :
            (2 < i /\ i < j /\ Under(query.comps) /\ verdicts[i]) => verdicts[j]

====
